---- MODULE Spec2Model ----
(***************************************************************************)
(* A model of src/web_scraper.py: the WebScraper crawl loop (crawl,        *)
(* scrape_webpage), its checkpoint file (load_progress, save_progress)     *)
(* and its link filter (is_valid_url, extract_links).                      *)
(*                                                                         *)
(* URLs are TLA+ strings; urlparse, urljoin, str.lower, `in` and endswith  *)
(* are computed on the characters of those strings.                        *)
(***************************************************************************)
EXTENDS Integers, Sequences, FiniteSets, TLC

(***************************************************************************)
(* Bounds of the model.                                                    *)
(***************************************************************************)
\* crawl() is invoked at most this many times on the same save directory
MaxRuns == 2
\* max_depth is drawn from -1 .. MaxDepthArg
MaxDepthArg == 2
\* max_pages is drawn from 0 .. MaxPagesArg
MaxPagesArg == 3

\* Fernet.generate_key() is called at most this many times
MaxKeys == 2

\* the checkpoint cadence of crawl(): len(visited_urls) % 5 == 0
SaveEvery == 5

(***************************************************************************)
(* Strings.                                                                *)
(***************************************************************************)
Char(s, i) == SubSeq(s, i, i)

UpperCase == "ABCDEFGHIJKLMNOPQRSTUVWXYZ"
LowerCase == "abcdefghijklmnopqrstuvwxyz"

\* str.lower() of one character
LowerChar(c) ==
    IF \E i \in 1..Len(UpperCase) : Char(UpperCase, i) = c
    THEN Char(LowerCase, CHOOSE i \in 1..Len(UpperCase) : Char(UpperCase, i) = c)
    ELSE c

RECURSIVE Lower(_)
\* str.lower()
Lower(s) == IF Len(s) = 0 THEN "" ELSE LowerChar(Char(s, 1)) \o Lower(Tail(s))

\* x in s, for strings
Contains(s, x) ==
    \E i \in 1..(Len(s) - Len(x) + 1) : SubSeq(s, i, i + Len(x) - 1) = x

\* s.endswith(x)
EndsWith(s, x) ==
    Len(x) <= Len(s) /\ SubSeq(s, Len(s) - Len(x) + 1, Len(s)) = x

\* s.startswith(x)
StartsWith(s, x) ==
    Len(x) <= Len(s) /\ SubSeq(s, 1, Len(x)) = x

\* the least index >= from of a character of s that is in chars; Len(s) + 1 if none
FindChar(s, chars, from) ==
    IF \E i \in from..Len(s) : Char(s, i) \in chars
    THEN CHOOSE i \in from..Len(s) :
            /\ Char(s, i) \in chars
            /\ \A j \in from..(i - 1) : Char(s, j) \notin chars
    ELSE Len(s) + 1

(***************************************************************************)
(* urllib.parse.urlparse, for URLs of the shape                            *)
(* [scheme:][//netloc][path][?query][#fragment].                           *)
(***************************************************************************)
\* the index of the ':' ending the scheme, 0 if the URL has no scheme
SchemeColon(u) ==
    LET i == FindChar(u, {":", "/", "?", "#"}, 1)
    IN  IF i > 1 /\ i <= Len(u) /\ Char(u, i) = ":" THEN i ELSE 0

Scheme(u) == SubSeq(u, 1, SchemeColon(u) - 1)

\* the URL after its scheme
AfterScheme(u) == SubSeq(u, SchemeColon(u) + 1, Len(u))

HasNetloc(u) == StartsWith(AfterScheme(u), "//")

\* urlparse(url).netloc
Netloc(u) ==
    LET r == AfterScheme(u)
    IN  IF HasNetloc(u)
        THEN SubSeq(r, 3, FindChar(r, {"/", "?", "#"}, 3) - 1)
        ELSE ""

\* the URL after its scheme and netloc
AfterNetloc(u) ==
    LET r == AfterScheme(u)
    IN  IF HasNetloc(u)
        THEN SubSeq(r, FindChar(r, {"/", "?", "#"}, 3), Len(r))
        ELSE r

\* urlparse(url).path
Path(u) ==
    LET r == AfterNetloc(u)
    IN  SubSeq(r, 1, FindChar(r, {"?", "#"}, 1) - 1)

\* urlparse(url).query
Query(u) ==
    LET r == AfterNetloc(u)
        h == FindChar(r, {"#"}, 1)
        q == FindChar(r, {"?"}, 1)
    IN  IF q < h THEN SubSeq(r, q + 1, h - 1) ELSE ""

(***************************************************************************)
(* urllib.parse.urljoin(base, href) for the three shapes of href the model *)
(* draws: empty (the page itself), absolute (with a scheme), and           *)
(* root-relative (a path starting with "/").                               *)
(***************************************************************************)
urljoin(base, href) ==
    IF href = "" THEN base
    ELSE IF SchemeColon(href) > 0 THEN href
    ELSE Scheme(base) \o "://" \o Netloc(base) \o href

(***************************************************************************)
(* WebScraper.is_valid_url                                                 *)
(***************************************************************************)
FileExtensions == {".doc", ".docx", ".xls", ".xlsx", ".ppt", ".pptx", ".zip", ".rar"}
SpaceMarkers == {"/display/", "/spaces/"}
SpecialPages ==
    {"action=edit", "action=history", "oldid=", "diff=", "printable=yes",
     "mobileaction=", "feed=", "redlink=1", "/viewpage.action", "attachments",
     "download"}
SpecialParams ==
    {"view=", "preview=", "diff", "pageId=", "mode=", "download=", "type=",
     "attachment"}

\* a filter that lacks the netloc rule
ExternalLinkIgnored(u, base_url) == FALSE
\* parsed.netloc != base_parsed.netloc
ExternalLink(u, base_url) == Netloc(u) # Netloc(base_url)

\* parsed.path.lower().endswith('.pdf')
IsPdf(u) == EndsWith(Lower(Path(u)), ".pdf")

\* any(parsed.path.lower().endswith(ext) for ext in [...])
IsFileDownload(u) == \E ext \in FileExtensions : EndsWith(Lower(Path(u)), ext)

\* a filter that lacks the space-marker rule
InSpaceDropped(u) == TRUE
\* any(x in parsed.path.lower() for x in ['/display/', '/spaces/'])
InSpace(u) == \E x \in SpaceMarkers : Contains(Lower(Path(u)), x)

\* any(x in parsed.path.lower() for x in [...])
IsSpecialPage(u) == \E x \in SpecialPages : Contains(Lower(Path(u)), x)

\* parsed.query and any(x in parsed.query.lower() for x in [...])
HasSpecialParam(u) ==
    Query(u) # "" /\ \E x \in SpecialParams : Contains(Lower(Query(u)), x)

is_valid_url(u, base_url) ==
    /\ ~ExternalLink(u, base_url)
    /\ ~IsPdf(u)
    /\ ~IsFileDownload(u)
    /\ InSpace(u)
    /\ ~IsSpecialPage(u)
    /\ ~HasSpecialParam(u)

(***************************************************************************)
(* The web the crawler is run against: the start URLs an operator gives,   *)
(* and the href attributes a fetched page may carry.                       *)
(***************************************************************************)
ProjUrl  == "https://wiki.example.com/display/Proj"
Page2Url == "https://wiki.example.com/display/Proj/page2"
OtherUrl == "https://wiki.example.com/spaces/Other/x"

StartUrls == {ProjUrl, Page2Url}

Hrefs ==
    {"",                                          \* the page itself
     "/display/Proj",                             \* ProjUrl, root-relative
     Page2Url,                                    \* absolute
     "/spaces/Other/x",                           \* OtherUrl, root-relative
     "https://other.example.com/display/Proj",    \* another host
     "/display/Proj/manual.pdf",                  \* a PDF
     "/about"}                                    \* no space marker

\* the pages of the site that links can lead to
Pages == {ProjUrl, Page2Url, OtherUrl}

(***************************************************************************)
(* A second, larger site, for the checkpoint cadence: the start page and   *)
(* five pages under it, each with the hrefs it carries.                    *)
(***************************************************************************)
CadenceHrefs ==
    {"/display/Proj/p1", "/display/Proj/p2", "/display/Proj/p3",
     "/display/Proj/p4", "/display/Proj/p5"}

CadencePages == {ProjUrl} \cup {urljoin(ProjUrl, h) : h \in CadenceHrefs}

\* the hrefs each page of the larger site carries
CadenceSite ==
    [b \in CadencePages |->
        CASE b = ProjUrl -> {"/display/Proj/p1", "/display/Proj/p2"}
          [] b = urljoin(ProjUrl, "/display/Proj/p1") ->
                {"/display/Proj/p2", "/display/Proj/p3", "/display/Proj/p4"}
          [] b = urljoin(ProjUrl, "/display/Proj/p2") ->
                {"/display/Proj/p5", "/display/Proj/p1"}
          [] OTHER -> {"/display/Proj/p1"}]

\* is_valid_url(urljoin(b, h), b) for the pages and hrefs of the larger site
CadenceValidJoin ==
    [b \in CadencePages, h \in CadenceHrefs |-> is_valid_url(urljoin(b, h), b)]

(***************************************************************************)
(* WebScraper.extract_links: the set of urljoin(base_url, href) that pass  *)
(* is_valid_url against the page's own URL.                                *)
(***************************************************************************)
\* is_valid_url(urljoin(b, h), b) for every page b and href h of the web,
\* evaluated once
ValidJoin == [b \in Pages, h \in Hrefs |-> is_valid_url(urljoin(b, h), b)]

LinkIsValid(base_url, href) ==
    IF <<base_url, href>> \in DOMAIN ValidJoin
    THEN ValidJoin[base_url, href]
    ELSE IF <<base_url, href>> \in DOMAIN CadenceValidJoin
    THEN CadenceValidJoin[base_url, href]
    ELSE is_valid_url(urljoin(base_url, href), base_url)

extract_links(all_links, base_url) ==
    {urljoin(base_url, h) : h \in {x \in all_links : LinkIsValid(base_url, x)}}

(***************************************************************************)
(* State.                                                                  *)
(***************************************************************************)
VARIABLES
    pc,             \* where crawl() is: "idle", "loop", "fetching", "emitted",
                    \* "final", "done"
    status,         \* "IDLE", "RUNNING", "COMPLETED", "INTERRUPTED"
    start_url,      \* crawl's argument
    max_depth,      \* self.max_depth
    max_pages,      \* self.max_pages
    visited_urls,   \* self.visited_urls
    queue,          \* crawl's deque of (url, depth)
    url,            \* the entry popped last
    depth,
    links,          \* the links scrape_webpage returns
    progress_file,  \* _progress/progress.json
    content_file,   \* the URL blocks this run appended to all_scraped_content.txt
    \* history of the run, for the properties
    runs,           \* crawl() invocations so far
    fetched,        \* URLs session.get was called for in this run
    refetched,      \* URLs session.get was called for more than once in this run
    outcome,        \* how the last iteration ended
    last_save,      \* the result of this run's last save_progress
    saved,          \* what the last save_progress that wrote the file was given
    restored,       \* the visited set crawl() started this run with
    resume,         \* how this run relates to the one before it
    pending,        \* at an interrupt: fetchable entries were left in the queue
    unwritten,      \* URLs for which save_content raised in this run
    \* one call of is_valid_url, for the properties of the filter alone
    candidate,      \* its url argument
    candidate_base, \* its base_url argument
    admitted,       \* what it returned
    \* the save directory and the processes that use its key and credentials
    save_dir,       \* the save directory exists
    progress_dir,   \* its _progress subdirectory exists
    key_file,       \* .key
    config_file,    \* .config
    proc,           \* "none": no process; "up": a WebScraper was constructed;
                    \* "crashed": its constructor raised
    key,            \* self.key
    loaded,         \* what the last load_credentials returned
    keys_made,      \* calls of Fernet.generate_key so far
    \* history, for the properties
    cred_op,        \* the last operation on the directory
    cred_saved,     \* what the last save_credentials that wrote .config was given
    key_touched,    \* .key was corrupted, replaced or deleted since that save
    stale_start     \* .key differed from the one of that save when the
                    \* process started

\* the state of a crawl
crawlVars == <<pc, status, start_url, max_depth, max_pages, visited_urls, queue,
               url, depth, links, progress_file, content_file, runs, fetched,
               refetched, outcome, last_save, saved, restored, resume, pending,
               unwritten>>

\* the record of a call of is_valid_url
filterVars == <<candidate, candidate_base, admitted>>

\* the save directory, its key and credentials
credVars == <<save_dir, progress_dir, key_file, config_file, proc, key, loaded,
              keys_made, cred_op, cred_saved, key_touched, stale_start>>

\* what a step of crawl() leaves alone
otherVars == <<filterVars, credVars>>

vars == <<crawlVars, otherVars>>

DepthArgs == -1..MaxDepthArg
PagesArgs == 0..MaxPagesArg

Range(f) == {f[i] : i \in DOMAIN f}

RECURSIVE SetToList(_)
\* list(a_set): its elements once each, in an order of the set's own
SetToList(S) ==
    IF S = {} THEN <<>>
    ELSE LET x == CHOOSE y \in S : TRUE IN <<x>> \o SetToList(S \ {x})

\* the orders in which `for link in links` may enumerate a set
Orderings(S) ==
    {f \in [1..Cardinality(S) -> S] : \A i, j \in DOMAIN f : f[i] = f[j] => i = j}

(***************************************************************************)
(* The checkpoint file.                                                    *)
(***************************************************************************)
NoFile == [kind |-> "none"]
\* a file json.load cannot parse: what a write that failed midway leaves
BrokenFile == [kind |-> "broken"]
ProgressJson(s, v) == [kind |-> "json", start_url |-> s, visited_urls |-> v]

\* the ways save_progress can end: written; open() raised; the write raised
SaveResults == {"ok", "open_failed", "write_failed"}

\* a save that gives up once a write has left the file broken
save_progressOnce(file, s, v, result) ==
    CASE file.kind = "broken" -> file
      [] result = "ok" -> ProgressJson(s, SetToList(v))
      [] result = "open_failed" -> file
      [] result = "write_failed" -> BrokenFile

\* save_progress(start_url): the file afterwards
save_progress(file, s, v, result) ==
    CASE result = "ok" -> ProgressJson(s, SetToList(v))
      [] result = "open_failed" -> file
      [] result = "write_failed" -> BrokenFile

\* what the file's last writer was given
Saved(old, s, v, result) ==
    CASE result = "ok" -> [kind |-> "saved", start_url |-> s, visited |-> v]
      [] result = "open_failed" -> old
      [] result = "write_failed" -> [kind |-> "failed"]

\* a load that takes any readable checkpoint
StartUrlAny(file, s) == TRUE
\* data.get('start_url') == start_url
StartUrlMatches(file, s) == file.start_url = s

\* load_progress(start_url) returns True
Loads(file, s) == file.kind = "json" /\ StartUrlMatches(file, s)

\* self.visited_urls after `if not self.load_progress(start_url): clear()`
load_progress(file, s) ==
    IF Loads(file, s) THEN Range(file.visited_urls) ELSE {}

(***************************************************************************)
(* crawl() and scrape_webpage().                                           *)
(***************************************************************************)
Init ==
    /\ pc = "idle"
    /\ status = "IDLE"
    /\ start_url = ""
    /\ max_depth = 0
    /\ max_pages = 0
    /\ visited_urls = {}
    /\ queue = <<>>
    /\ url = ""
    /\ depth = 0
    /\ links = {}
    /\ progress_file = NoFile
    /\ content_file = <<>>
    /\ runs = 0
    /\ fetched = {}
    /\ refetched = {}
    /\ outcome = "none"
    /\ last_save = "none"
    /\ saved = [kind |-> "none"]
    /\ restored = {}
    /\ resume = "fresh"
    /\ pending = FALSE
    /\ unwritten = {}
    /\ candidate = ""
    /\ candidate_base = ""
    /\ admitted = FALSE
    /\ save_dir = FALSE
    /\ progress_dir = FALSE
    /\ key_file = [kind |-> "none"]
    /\ config_file = [kind |-> "none"]
    /\ proc = "none"
    /\ key = [kind |-> "none"]
    /\ loaded = [kind |-> "notcalled"]
    /\ keys_made = 0
    /\ cred_op = "none"
    /\ cred_saved = [kind |-> "none"]
    /\ key_touched = FALSE
    /\ stale_start = FALSE

\* how a run started with (s, d, p) relates to the run that just ended
ResumeKind(s, d, p) ==
    IF pc = "done" /\ s = start_url /\ d = max_depth /\ p = max_pages
       /\ last_save = "ok"
    THEN CASE status = "INTERRUPTED" /\ pending -> "interrupted"
           [] status = "COMPLETED" -> "completed"
           [] OTHER -> "other"
    ELSE "fresh"

\* a process is started for (s, d, p): __init__, then crawl() up to its loop
StartCrawl(s, d, p) ==
    /\ pc \in {"idle", "done"}
    /\ runs < MaxRuns
    /\ runs' = runs + 1
    /\ start_url' = s
    /\ max_depth' = d
    /\ max_pages' = p
    /\ visited_urls' = load_progress(progress_file, s)
    /\ restored' = visited_urls'
    /\ resume' = ResumeKind(s, d, p)
    /\ queue' = <<[url |-> s, depth |-> 0]>>
    /\ pc' = "loop"
    /\ status' = "RUNNING"
    /\ url' = ""
    /\ depth' = 0
    /\ links' = {}
    /\ content_file' = <<>>
    /\ fetched' = {}
    /\ refetched' = {}
    /\ outcome' = "none"
    /\ last_save' = "none"
    /\ pending' = FALSE
    /\ unwritten' = {}
    /\ UNCHANGED <<progress_file, saved>>
    /\ UNCHANGED otherVars

\* while queue and len(self.visited_urls) < self.max_pages
LoopCondition(q, v) == q # <<>> /\ Cardinality(v) < max_pages

\* a depth guard that is off by one
DepthExceededLate(d) == d > max_depth + 1
\* scrape_webpage: depth > self.max_depth
DepthExceeded(d) == d > max_depth

\* scrape_webpage: len(self.visited_urls) >= self.max_pages
BudgetReached(v) == Cardinality(v) >= max_pages

\* a loop without the periodic save
PeriodicSaveNever(v, result) ==
    /\ result = "ok"
    /\ UNCHANGED <<progress_file, saved, last_save>>

\* the save at the end of an iteration: if len(self.visited_urls) % 5 == 0
PeriodicSave(v, result) ==
    IF Cardinality(v) % SaveEvery = 0
    THEN /\ progress_file' = save_progress(progress_file, start_url, v, result)
         /\ saved' = Saved(saved, start_url, v, result)
         /\ last_save' = result
    ELSE /\ result = "ok"
         /\ UNCHANGED <<progress_file, saved, last_save>>

\* the loop condition fails: on to the final save
ExitLoop ==
    /\ pc = "loop"
    /\ ~LoopCondition(queue, visited_urls)
    /\ pc' = "final"
    /\ UNCHANGED <<status, start_url, max_depth, max_pages, visited_urls, queue,
                   url, depth, links, progress_file, content_file, runs, fetched,
                   refetched, outcome, last_save, saved, restored, resume, pending,
               unwritten>>
    /\ UNCHANGED unwritten
    /\ UNCHANGED otherVars

\* a loop that reads the head of the queue without removing it
PopLeftKept(q) == q

\* queue.popleft()
PopLeft(q) == Tail(q)

\* popleft, and the entry's URL is in visited_urls: continue
SkipVisited ==
    /\ pc = "loop"
    /\ LoopCondition(queue, visited_urls)
    /\ Head(queue).url \in visited_urls
    /\ queue' = PopLeft(queue)
    /\ url' = Head(queue).url
    /\ depth' = Head(queue).depth
    /\ outcome' = "skipped"
    /\ links' = {}
    /\ UNCHANGED <<pc, status, start_url, max_depth, max_pages, visited_urls,
                   progress_file, content_file, runs, fetched, refetched,
                   last_save, saved, restored, resume, pending>>
    /\ UNCHANGED unwritten
    /\ UNCHANGED otherVars

\* popleft, and scrape_webpage returns (None, set()) without fetching
Discard(result) ==
    /\ pc = "loop"
    /\ LoopCondition(queue, visited_urls)
    /\ Head(queue).url \notin visited_urls
    /\ DepthExceeded(Head(queue).depth) \/ BudgetReached(visited_urls)
    /\ queue' = PopLeft(queue)
    /\ url' = Head(queue).url
    /\ depth' = Head(queue).depth
    /\ outcome' = "discarded"
    /\ links' = {}
    /\ PeriodicSave(visited_urls, result)
    /\ UNCHANGED <<pc, status, start_url, max_depth, max_pages, visited_urls,
                   content_file, runs, fetched, refetched, restored, resume,
                   pending>>
    /\ UNCHANGED unwritten
    /\ UNCHANGED otherVars

\* popleft, and scrape_webpage goes on to self.session.get(url)
Dispatch ==
    /\ pc = "loop"
    /\ LoopCondition(queue, visited_urls)
    /\ Head(queue).url \notin visited_urls
    /\ ~(DepthExceeded(Head(queue).depth) \/ BudgetReached(visited_urls))
    /\ queue' = PopLeft(queue)
    /\ url' = Head(queue).url
    /\ depth' = Head(queue).depth
    /\ fetched' = fetched \cup {url'}
    /\ refetched' = IF url' \in fetched THEN refetched \cup {url'} ELSE refetched
    /\ links' = {}
    /\ pc' = "fetching"
    /\ UNCHANGED <<status, start_url, max_depth, max_pages, visited_urls,
                   progress_file, content_file, runs, outcome, last_save, saved,
                   restored, resume, pending>>
    /\ UNCHANGED unwritten
    /\ UNCHANGED otherVars

\* a handler that marks the failed URL visited
AfterFailureMarked(v, u) == v \cup {u}
\* self.visited_urls after a fetch raised
AfterFailure(v, u) == v

\* a scrape_webpage without its try: the exception reaches crawl()'s handler,
\* which saves the progress and returns
FetchFailAborts(result) ==
    /\ pc = "fetching"
    /\ outcome' = "failed"
    /\ progress_file' = save_progress(progress_file, start_url, visited_urls, result)
    /\ saved' = Saved(saved, start_url, visited_urls, result)
    /\ last_save' = result
    /\ status' = "ABORTED"
    /\ pc' = "done"
    /\ queue' = <<>>
    /\ url' = ""
    /\ depth' = 0
    /\ links' = {}
    /\ UNCHANGED <<start_url, max_depth, max_pages, visited_urls, content_file,
                   runs, fetched, refetched, restored, resume, pending>>
    /\ UNCHANGED unwritten
    /\ UNCHANGED otherVars

\* the fetch or the parse raises: scrape_webpage returns (None, set())
FetchFail(result) ==
    /\ pc = "fetching"
    /\ visited_urls' = AfterFailure(visited_urls, url)
    /\ links' = {}
    /\ outcome' = "failed"
    /\ PeriodicSave(visited_urls', result)
    /\ pc' = "loop"
    /\ UNCHANGED <<status, start_url, max_depth, max_pages, queue, url, depth,
                   content_file, runs, fetched, refetched, restored, resume,
                   pending>>
    /\ UNCHANGED unwritten
    /\ UNCHANGED otherVars

\* the fetch succeeds with a page carrying all_links: extract_links, then
\* save_content, which appends the page's block unless its write raises
FetchOk(all_links, written) ==
    /\ pc = "fetching"
    /\ links' = extract_links(all_links, url)
    /\ content_file' = IF written THEN Append(content_file, url) ELSE content_file
    /\ unwritten' = IF written THEN unwritten ELSE unwritten \cup {url}
    /\ pc' = "emitted"
    /\ UNCHANGED <<status, start_url, max_depth, max_pages, visited_urls, queue,
                   url, depth, progress_file, runs, fetched, refetched, outcome,
                   last_save, saved, restored, resume, pending>>
    /\ UNCHANGED otherVars

\* marking the page and the links found on it
VisitedAddWithLinks(v, u) == v \cup {u} \cup links
\* self.visited_urls.add(url)
VisitedAdd(v, u) == v \cup {u}

\* a depth test that lets the children of the deepest level in
MayEnqueueDeepest(d) == d <= max_depth
\* if depth < self.max_depth
MayEnqueue(d) == d < max_depth

\* the links crawl() appends: if link not in self.visited_urls
NewLinks(ls, v) == {l \in ls : l \notin v}

\* visited_urls.add(url); crawl() appends the new links at depth + 1 and saves
Record(result) ==
    /\ pc = "emitted"
    /\ visited_urls' = VisitedAdd(visited_urls, url)
    /\ \E order \in Orderings(IF MayEnqueue(depth)
                              THEN NewLinks(links, visited_urls') ELSE {}) :
          queue' = queue \o [i \in DOMAIN order |->
                                [url |-> order[i], depth |-> depth + 1]]
    /\ outcome' = "scraped"
    /\ PeriodicSave(visited_urls', result)
    /\ pc' = "loop"
    /\ UNCHANGED <<status, start_url, max_depth, max_pages, url, depth, links,
                   content_file, runs, fetched, refetched, restored, resume,
                   pending>>
    /\ UNCHANGED unwritten
    /\ UNCHANGED otherVars

\* a return without the save
FinalSaveSkipped(file, s, v, result) == file
\* the save that ends a run: self.save_progress(start_url)
FinalSave(file, s, v, result) == save_progress(file, s, v, result)

\* after the loop: self.save_progress(start_url)
Finish(result) ==
    /\ pc = "final"
    /\ progress_file' = FinalSave(progress_file, start_url, visited_urls, result)
    /\ saved' = Saved(saved, start_url, visited_urls, result)
    /\ last_save' = result
    /\ status' = "COMPLETED"
    /\ pc' = "done"
    /\ queue' = <<>>
    /\ url' = ""
    /\ depth' = 0
    /\ links' = {}
    /\ UNCHANGED <<start_url, max_depth, max_pages, visited_urls, content_file,
                   runs, fetched, refetched, outcome, restored, resume, pending>>
    /\ UNCHANGED unwritten
    /\ UNCHANGED otherVars

\* entries that could still be fetched: not visited, within depth, budget left
Fetchable(q, v) ==
    /\ Cardinality(v) < max_pages
    /\ \E i \in DOMAIN q : q[i].url \notin v /\ q[i].depth <= max_depth

\* KeyboardInterrupt inside crawl()'s try: self.save_progress(start_url);
\* crawl() returns and its locals are gone
Interrupt(result) ==
    /\ pc \in {"loop", "fetching", "emitted", "final"}
    /\ progress_file' = FinalSave(progress_file, start_url, visited_urls, result)
    /\ saved' = Saved(saved, start_url, visited_urls, result)
    /\ last_save' = result
    /\ status' = "INTERRUPTED"
    /\ pending' = Fetchable(queue, visited_urls)
    /\ pc' = "done"
    /\ queue' = <<>>
    /\ url' = ""
    /\ depth' = 0
    /\ links' = {}
    /\ UNCHANGED <<start_url, max_depth, max_pages, visited_urls, content_file,
                   runs, fetched, refetched, outcome, restored, resume>>
    /\ UNCHANGED unwritten
    /\ UNCHANGED otherVars

Next ==
    \/ \E s \in StartUrls, d \in DepthArgs, p \in PagesArgs : StartCrawl(s, d, p)
    \/ ExitLoop
    \/ SkipVisited
    \/ \E r \in SaveResults : Discard(r)
    \/ Dispatch
    \/ \E r \in SaveResults : FetchFail(r)
    \/ \E hs \in SUBSET Hrefs, w \in BOOLEAN : FetchOk(hs, w)
    \/ \E r \in SaveResults : Record(r)
    \/ \E r \in SaveResults : Finish(r)
    \/ \E r \in SaveResults : Interrupt(r)

Spec == Init /\ [][Next]_vars

(***************************************************************************)
(* crawl() on the larger site, deep and long enough to meet the cadence.   *)
(***************************************************************************)
CadenceDepthArgs == {-1, MaxDepthArg}
CadencePagesArgs == {MaxPagesArg + 3}

CadenceNext ==
    \/ \E d \in CadenceDepthArgs, p \in CadencePagesArgs : StartCrawl(ProjUrl, d, p)
    \/ ExitLoop
    \/ SkipVisited
    \/ \E r \in SaveResults : Discard(r)
    \/ Dispatch
    \/ \E r \in SaveResults : FetchFail(r)
    \/ \E w \in BOOLEAN : FetchOk(CadenceSite[url], w)
    \/ \E r \in SaveResults : Record(r)
    \/ \E r \in SaveResults : Finish(r)
    \/ \E r \in SaveResults : Interrupt(r)

CadenceSpec == Init /\ [][CadenceNext]_vars

(***************************************************************************)
(* is_valid_url called on its own, for any candidate against any base.     *)
(***************************************************************************)
EditQueryUrl == "https://wiki.example.com/display/Proj/page?action=edit"
EditPathUrl  == "https://wiki.example.com/display/Proj/action=edit/page"

\* the url arguments
FilterCandidates ==
    {ProjUrl, Page2Url, OtherUrl, EditQueryUrl, EditPathUrl,
     "https://wiki.example.com/display/Proj/page?view=print",
     "https://wiki.example.com/display/Proj/page?pageId=42",
     "https://wiki.example.com/display/Proj/page#action=edit",
     "https://other.example.com/display/Proj",
     "https://sub.wiki.example.com/display/Proj",
     "https://wiki.example.com/about",
     "https://wiki.example.com/display/Proj/manual.PDF",
     "https://wiki.example.com/display/Proj/sheet.xlsx",
     "https://wiki.example.com/DISPLAY/Proj/Page3"}

\* the base_url arguments
FilterBases ==
    {ProjUrl, Page2Url, OtherUrl,
     "https://other.example.com/display/Proj",
     "https://sub.wiki.example.com/display/Proj",
     "https://example.com/display/Proj",
     "http://wiki.example.com/display/Proj",
     "https://wiki.example.com/about"}

\* self.is_valid_url(u, base_url) is called and returns
CheckUrl(u, base_url) ==
    /\ candidate' = u
    /\ candidate_base' = base_url
    /\ admitted' = is_valid_url(u, base_url)
    /\ UNCHANGED <<crawlVars, credVars>>

FilterNext == \E u \in FilterCandidates, b \in FilterBases : CheckUrl(u, b)

FilterSpec == Init /\ [][FilterNext]_vars

(***************************************************************************)
(* The save directory: __init__ with its key file, save_credentials and    *)
(* load_credentials, and what an operator may do to the files between.     *)
(***************************************************************************)
NoKey == [kind |-> "none"]
\* the n-th key Fernet.generate_key() returns
FernetKey(n) == [kind |-> "key", id |-> n]
\* a Fernet key this program did not generate
ForeignKey == FernetKey(0)
\* bytes that are no Fernet key
GarbageKey == [kind |-> "garbage"]

\* Fernet(key) accepts the key: 32 url-safe base64-encoded bytes
ValidKey(k) == k.kind = "key"

\* Fernet(key).encrypt(text): a token only that key opens
encrypt(k, text) == [key |-> k, text |-> text]

\* Fernet(key).decrypt(token) returns, rather than raising InvalidToken
Decrypts(k, token) == token.key = k

\* Fernet(key).decrypt(token)
decrypt(k, token) == token.text

NoConfig == [kind |-> "none"]
\* a .config json.load cannot parse: what a write that failed midway leaves
BrokenConfig == [kind |-> "broken"]
ConfigJson(name, token) == [kind |-> "json", username |-> name, password |-> token]

Usernames == {"alice", "bob"}
Passwords == {"s3cret", "hunter2"}

\* (None, None)
NoCredentials == [kind |-> "none"]
Credentials(name, text) == [kind |-> "pair", username |-> name, password |-> text]

\* an operator creates the save directory
MakeDir ==
    /\ proc = "none"
    /\ ~save_dir
    /\ save_dir' = TRUE
    /\ cred_op' = "mkdir"
    /\ UNCHANGED <<progress_dir, key_file, config_file, proc, key, loaded,
                   keys_made, cred_saved, key_touched, stale_start>>
    /\ UNCHANGED <<crawlVars, filterVars>>

\* os.makedirs(save_directory) and os.makedirs(self.progress_dir), as needed
MakeDirs ==
    /\ save_dir' = TRUE
    /\ progress_dir' = TRUE

\* a process starts and constructs its WebScraper: the key is read from .key
\* or generated and written to it, Fernet(self.key) is built, and only then
\* the directories are created
InitScraper ==
    /\ proc = "none"
    /\ cred_op' = "init"
    /\ stale_start' = (cred_saved.kind = "saved" /\ key_file # cred_saved.key_file)
    /\ IF key_file # NoKey
       THEN /\ key' = key_file
            /\ UNCHANGED <<key_file, keys_made>>
            /\ IF ValidKey(key_file)
               THEN proc' = "up" /\ MakeDirs
               ELSE proc' = "crashed" /\ UNCHANGED <<save_dir, progress_dir>>
       ELSE /\ keys_made < MaxKeys
            /\ keys_made' = keys_made + 1
            /\ key' = FernetKey(keys_made')
            /\ IF save_dir
               THEN key_file' = key' /\ proc' = "up" /\ MakeDirs
               ELSE /\ proc' = "crashed"
                    /\ UNCHANGED <<key_file, save_dir, progress_dir>>
    /\ UNCHANGED <<config_file, loaded, cred_saved, key_touched>>
    /\ UNCHANGED <<crawlVars, filterVars>>

\* self.save_credentials(name, text)
SaveCredentials(name, text, result) ==
    /\ proc = "up"
    /\ cred_op' = "save"
    /\ CASE result = "ok" ->
              /\ config_file' = ConfigJson(name, encrypt(key, text))
              /\ cred_saved' = [kind |-> "saved", username |-> name,
                                password |-> text, key_file |-> key_file]
              /\ key_touched' = FALSE
              /\ stale_start' = FALSE
         [] result = "open_failed" ->
              UNCHANGED <<config_file, cred_saved, key_touched, stale_start>>
         [] result = "write_failed" ->
              /\ config_file' = BrokenConfig
              /\ cred_saved' = [kind |-> "lost"]
              /\ UNCHANGED <<key_touched, stale_start>>
    /\ UNCHANGED <<save_dir, progress_dir, key_file, proc, key, loaded, keys_made>>
    /\ UNCHANGED <<crawlVars, filterVars>>

\* what load_credentials returns
load_credentials(config, k) ==
    IF config.kind = "json" /\ Decrypts(k, config.password)
    THEN Credentials(config.username, decrypt(k, config.password))
    ELSE NoCredentials

\* self.load_credentials()
LoadCredentials ==
    /\ proc = "up"
    /\ cred_op' = "load"
    /\ loaded' = load_credentials(config_file, key)
    /\ UNCHANGED <<save_dir, progress_dir, key_file, config_file, proc, key,
                   keys_made, cred_saved, key_touched, stale_start>>
    /\ UNCHANGED <<crawlVars, filterVars>>

\* the process ends
ExitProcess ==
    /\ proc \in {"up", "crashed"}
    /\ proc' = "none"
    /\ key' = NoKey
    /\ loaded' = [kind |-> "notcalled"]
    /\ cred_op' = "exit"
    /\ UNCHANGED <<save_dir, progress_dir, key_file, config_file, keys_made,
                   cred_saved, key_touched, stale_start>>
    /\ UNCHANGED <<crawlVars, filterVars>>

\* .key is corrupted, replaced by another key, or deleted
TamperKey(k) ==
    /\ key_file # NoKey
    /\ k # key_file
    /\ key_file' = k
    /\ key_touched' = TRUE
    /\ cred_op' = "tamper"
    /\ UNCHANGED <<save_dir, progress_dir, config_file, proc, key, loaded,
                   keys_made, cred_saved, stale_start>>
    /\ UNCHANGED <<crawlVars, filterVars>>

CredNext ==
    \/ MakeDir
    \/ InitScraper
    \/ \E name \in Usernames, text \in Passwords, r \in SaveResults :
          SaveCredentials(name, text, r)
    \/ LoadCredentials
    \/ ExitProcess
    \/ \E k \in {GarbageKey, ForeignKey, NoKey} : TamperKey(k)

CredSpec == Init /\ [][CredNext]_vars

(***************************************************************************)
(* Properties.                                                             *)
(***************************************************************************)
Max(a, b) == IF a >= b THEN a ELSE b

InRun == pc \in {"loop", "fetching", "emitted", "final"}

\* every URL the web of the model can produce
AllUrls == Pages \cup {urljoin(b, h) : b \in Pages, h \in Hrefs}

\* the URLs whose path contains '/display/' or '/spaces/', in any case
MarkedUrls ==
    {u \in AllUrls : \/ Contains(Lower(Path(u)), "/display/")
                     \/ Contains(Lower(Path(u)), "/spaces/")}

\* a path's directory: the path up to its last "/"
DirOf(path) ==
    LET slashes == {i \in 1..Len(path) : Char(path, i) = "/"}
    IN  IF slashes = {} THEN ""
        ELSE SubSeq(path, 1, CHOOSE i \in slashes : \A j \in slashes : j <= i)

\* <<s, u>>: the path of u lies under the directory of the path of s
UnderDir ==
    {su \in StartUrls \X AllUrls :
        StartsWith(Path(su[2]), DirOf(Path(su[1])))}

\* C1: within one run no URL is handed to session.get more than once.
C1_NoUrlFetchedTwice == refetched = {}

\* C2: when the fetch of the dequeued URL failed, that URL is in the visited
\* set when the iteration has ended.
C2_FailedUrlMarkedVisited ==
    (pc = "loop" /\ outcome = "failed") => url \in visited_urls

\* C3: a run that resumes an interrupted run (same start URL and budget, the
\* interrupt's checkpoint written, fetchable entries left in the frontier and
\* the page budget not reached) does not complete with zero fetches.
C3_ResumeFetchesPending ==
    (pc = "done" /\ status = "COMPLETED" /\ resume = "interrupted")
        => fetched # {}

\* C4: re-running a completed run with the same arguments against its
\* checkpoint fetches nothing and completes with the visited set it restored.
C4_ResumeIdempotent ==
    (pc = "done" /\ status = "COMPLETED" /\ resume = "completed")
        => fetched = {} /\ visited_urls = restored

\* C5: when crawl() has returned, by completion or by an interrupt, a save was
\* attempted, and if it succeeded the checkpoint file holds the requested
\* start URL and exactly the URLs of the visited set, each once.
C5_CheckpointOnExit ==
    pc = "done" =>
        /\ last_save # "none"
        /\ last_save = "ok" =>
              /\ progress_file.kind = "json"
              /\ progress_file.start_url = start_url
              /\ Range(progress_file.visited_urls) = visited_urls
              /\ Len(progress_file.visited_urls) = Cardinality(visited_urls)

C5_Witness ==
    /\ pc = "done"
    /\ status = "INTERRUPTED"
    /\ last_save = "ok"
    /\ Cardinality(visited_urls) = 2
    /\ pending

\* C6, as stated: at completion the visited set holds at most max_pages URLs.
C6_VisitedWithinBudget ==
    (pc = "done" /\ status = "COMPLETED")
        => Cardinality(visited_urls) <= max_pages

\* C6, amended: throughout a run the visited set holds at most max_pages URLs
\* or as many as the checkpoint restored at its start, whichever is larger.
C6_VisitedWithinBudgetOrRestored ==
    pc # "idle" =>
        Cardinality(visited_urls) <= Max(max_pages, Cardinality(restored))

C6_Witness ==
    /\ pc = "done"
    /\ status = "COMPLETED"
    /\ restored = {}
    /\ max_pages = 2
    /\ Cardinality(visited_urls) = 2
    /\ max_depth = 2

\* C7: a fetch is dispatched only for an entry of depth <= max_depth, and for
\* none when max_depth is negative.
C7_FetchWithinDepth ==
    /\ pc \in {"fetching", "emitted"} => depth >= 0 /\ depth <= max_depth
    /\ max_depth < 0 => fetched = {}

C7_Witness == pc = "fetching" /\ depth = max_depth /\ depth = 2

\* how far a run is from the end of crawl(): the URLs not yet visited weigh
\* more than any queue they can add, a queue entry more than the steps spent
\* on it
PcRank ==
    CASE pc = "fetching" -> 4
      [] pc = "emitted" -> 3
      [] pc = "loop" -> 2
      [] pc = "final" -> 1
      [] OTHER -> 0

Rank ==
    (3 * Cardinality(AllUrls) + 1) * Cardinality(AllUrls \ visited_urls)
        + 3 * Len(queue) + PcRank

\* C8: every run terminates: each step taken while crawl() runs lowers a
\* rank that never falls below 0, so only finitely many steps fit in a run.
C8_Terminates ==
    [][InRun => (Rank' < Rank /\ Rank' >= 0)]_vars

C8_Witness ==
    /\ pc = "done"
    /\ status = "COMPLETED"
    /\ refetched # {}
    /\ Cardinality(visited_urls) = 2
    /\ max_pages = 3

\* C9: unless the last write of the checkpoint file failed midway, crawl()
\* starts with exactly the visited set given to the last save that wrote the
\* file if that save's start URL equals the requested one, and with the empty
\* set otherwise.
C9_LoadRestoresLastSave ==
    [][(pc \in {"idle", "done"} /\ pc' = "loop" /\ saved.kind # "failed")
         => visited_urls' =
               IF saved.kind = "saved" /\ saved.start_url = start_url'
               THEN saved.visited ELSE {}]_vars

C9_Witness ==
    /\ pc = "loop"
    /\ outcome = "none"
    /\ runs = 2
    /\ Cardinality(restored) = 2
    /\ restored = visited_urls

\* C10, as stated: every URL enqueued or fetched, other than the start URL,
\* has a path under the directory of the start URL's path.
C10_PathUnderStartDir ==
    /\ \A i \in DOMAIN queue :
          queue[i].url # start_url => <<start_url, queue[i].url>> \in UnderDir
    /\ (pc \in {"fetching", "emitted"} /\ url # start_url)
          => <<start_url, url>> \in UnderDir

\* C10, amended: every link the filter admits, and so every URL enqueued or
\* fetched below depth 0, has a path containing '/display/' or '/spaces/'.
C10_PathInSpace ==
    /\ links \subseteq MarkedUrls
    /\ \A i \in DOMAIN queue : queue[i].depth >= 1 => queue[i].url \in MarkedUrls
    /\ (pc \in {"fetching", "emitted"} /\ depth >= 1) => url \in MarkedUrls

C10_Witness ==
    /\ start_url = ProjUrl
    /\ pc = "fetching"
    /\ depth = 1
    /\ url = OtherUrl
    /\ <<start_url, url>> \notin UnderDir

\* the marker of an edit action, in lower case
EditMarker == "action=edit"

\* C11: against the base /display/Proj the filter rejects the page with the
\* query string action=edit and admits /display/Proj/page2, and it rejects
\* every candidate carrying the edit marker in its path or in its query.
C11_EditMarkerRejected ==
    /\ (candidate = EditQueryUrl /\ candidate_base = ProjUrl) => ~admitted
    /\ (candidate = Page2Url /\ candidate_base = ProjUrl) => admitted
    /\ (\/ Contains(Lower(Path(candidate)), EditMarker)
        \/ Contains(Lower(Query(candidate)), EditMarker)) => ~admitted

\* <<s, u>>: u has exactly the authority of s
SameAuthority ==
    {su \in StartUrls \X AllUrls : Netloc(su[2]) = Netloc(su[1])}

\* C12: every URL that is enqueued, fetched or returned as a link of a fetched
\* page has exactly the authority of the start URL.
C12_SameAuthority ==
    /\ \A i \in DOMAIN queue : <<start_url, queue[i].url>> \in SameAuthority
    /\ \A u \in fetched \cup links : <<start_url, u>> \in SameAuthority
    /\ pc \in {"fetching", "emitted"} => <<start_url, url>> \in SameAuthority

\* links were filtered against a page that is not the start URL
C12_Witness ==
    /\ pc = "emitted"
    /\ start_url = Page2Url
    /\ url = OtherUrl
    /\ depth = 2
    /\ links = {ProjUrl, Page2Url}

\* C13: load_credentials after a save_credentials(u, p) that wrote .config
\* returns exactly (u, p) while .key has not been touched since; and a process
\* started after .key was corrupted or replaced neither dies of an exception
\* nor gets anything but (None, None) from load_credentials.
C13_CredentialRoundTrip ==
    /\ (cred_op = "load" /\ cred_saved.kind = "saved" /\ ~key_touched)
          => loaded = Credentials(cred_saved.username, cred_saved.password)
    /\ (cred_saved.kind = "saved" /\ stale_start)
          => /\ proc # "crashed"
             /\ cred_op = "load" => loaded = NoCredentials

\* C19: constructing a WebScraper succeeds and leaves the save directory and
\* _progress in place; it generates and persists a key exactly when .key does
\* not exist, and otherwise uses the key of .key and leaves the file as it is.
C19_InitSucceeds ==
    [][(proc = "none" /\ proc' # "none")
         => /\ proc' = "up"
            /\ save_dir' /\ progress_dir'
            /\ key_file = NoKey =>
                  /\ keys_made' = keys_made + 1
                  /\ key_file' = key' /\ ValidKey(key')
            /\ key_file # NoKey =>
                  /\ keys_made' = keys_made
                  /\ key_file' = key_file /\ key' = key_file]_vars

\* C14: when a run has ended INTERRUPTED no page is half-processed: every URL
\* whose text this run appended to the output is in the visited set and, if
\* the checkpoint of the shutdown was written, in that checkpoint.
C14_NoHalfProcessedPage ==
    (pc = "done" /\ status = "INTERRUPTED") =>
        \A u \in Range(content_file) :
            /\ u \in visited_urls
            /\ last_save = "ok" => u \in Range(progress_file.visited_urls)

\* C15: a failed fetch or extraction ends the iteration with the crawl still
\* running, nothing appended to the output and the frontier as it was; and
\* while the loop condition holds the next step of the crawl dequeues the
\* next frontier entry.
C15_PageFailureContained ==
    [][/\ (pc = "fetching" /\ pc' \notin {"fetching", "emitted"}
                           /\ status' # "INTERRUPTED")
            => /\ pc' = "loop" /\ status' = "RUNNING" /\ outcome' = "failed"
               /\ queue' = queue
               /\ content_file' = content_file
               /\ links' = {}
       /\ (pc = "loop" /\ outcome = "failed" /\ pc' # "done"
                       /\ LoopCondition(queue, visited_urls))
            => /\ url' = Head(queue).url
               /\ queue' = Tail(queue)]_vars

\* after a failed fetch the crawl went on to fetch the remaining entries
C15_Witness ==
    /\ pc = "fetching"
    /\ outcome = "failed"
    /\ refetched = {}
    /\ Cardinality(fetched) = 3
    /\ Len(content_file) = 1

\* the depths of the frontier, front to back
QueueDepths == [i \in DOMAIN queue |-> queue[i].depth]

\* the frontier is in breadth-first order: depths never decrease from front
\* to back and span at most two levels
BreadthFirst ==
    \A i, j \in DOMAIN queue :
        i <= j => /\ QueueDepths[i] <= QueueDepths[j]
                  /\ QueueDepths[j] <= QueueDepths[i] + 1

\* C17, as stated: the frontier is in breadth-first order and every depth in
\* it lies between 0 and max_depth.
C17_FrontierDepths ==
    /\ BreadthFirst
    /\ \A i \in DOMAIN queue : 0 <= QueueDepths[i] /\ QueueDepths[i] <= max_depth

\* C17, amended: the frontier is in breadth-first order, the entry being
\* processed is no deeper than any entry left in it, and every depth in it
\* lies between 0 and max_depth, or is the seed's 0 when max_depth is negative.
C17_FrontierDepthsFromSeed ==
    /\ BreadthFirst
    /\ \A i \in DOMAIN queue :
          0 <= QueueDepths[i] /\ QueueDepths[i] <= Max(max_depth, 0)
    /\ (pc \in {"fetching", "emitted"} /\ queue # <<>>)
          => depth <= QueueDepths[1] /\ QueueDepths[Len(queue)] <= depth + 1

\* a frontier holding two levels after a page of the upper one was processed
C17_Witness ==
    /\ pc = "loop"
    /\ outcome = "scraped"
    /\ depth = 1
    /\ Len(queue) = 2
    /\ QueueDepths[1] = 1
    /\ QueueDepths[2] = 2

\* no URL occurs twice in the output of this run
AppendedOnce ==
    \A i, j \in DOMAIN content_file : content_file[i] = content_file[j] => i = j

\* C20: at every iteration boundary of a running crawl none of whose output
\* writes failed, the URLs appended to the output in this run are exactly the
\* URLs added to the visited set in this run, each appended once.
C20_OutputMatchesVisited ==
    (pc = "loop" /\ status = "RUNNING" /\ unwritten = {}) =>
        /\ Range(content_file) = visited_urls \ restored
        /\ AppendedOnce

\* a URL whose first fetch failed was fetched again and appended
C20_Witness ==
    /\ pc = "loop"
    /\ unwritten = {}
    /\ refetched # {}
    /\ refetched \subseteq Range(content_file)
    /\ Len(content_file) = 3

\* an iteration ends at a cadence point and its save fails
FailedPeriodicSave ==
    /\ pc \in {"loop", "fetching", "emitted"}
    /\ pc' = "loop"
    /\ outcome' # "skipped"
    /\ Cardinality(visited_urls') % SaveEvery = 0
    /\ last_save' \in {"open_failed", "write_failed"}

\* C16: an iteration whose periodic save fails ends as it would have without
\* the save: the crawl is running, the visited set is the one the iteration
\* produced, and the frontier lost at most its head and gained only children;
\* and a save that succeeds after a failed one writes the visited set of its
\* own moment.
C16_FailedSaveHarmless ==
    [][/\ FailedPeriodicSave
            => /\ status' = "RUNNING"
               /\ visited_urls' = IF outcome' = "scraped"
                                  THEN visited_urls \cup {url} ELSE visited_urls
               /\ IF pc = "loop"
                  THEN queue' = Tail(queue)
                  ELSE SubSeq(queue', 1, Len(queue)) = queue
       /\ (InRun /\ last_save \in {"open_failed", "write_failed"}
                 /\ last_save' = "ok")
            => /\ progress_file'.kind = "json"
               /\ progress_file'.start_url = start_url
               /\ Range(progress_file'.visited_urls) = visited_urls']_vars

\* the save at the fifth page failed and the crawl went on to fetch a sixth
C16_Witness ==
    /\ pc = "fetching"
    /\ outcome = "scraped"
    /\ last_save = "write_failed"
    /\ progress_file = BrokenFile
    /\ Cardinality(visited_urls) = SaveEvery

\* C18: at every iteration boundary of a run whose last save, if any,
\* succeeded, the visited set load_progress would restore from the file is a
\* subset of the visited set in memory and lacks at most SaveEvery - 1 of its
\* URLs.
C18_CheckpointLag ==
    (pc = "loop" /\ last_save \in {"none", "ok"}) =>
        LET on_disk == load_progress(progress_file, start_url)
        IN  /\ on_disk \subseteq visited_urls
            /\ Cardinality(visited_urls \ on_disk) <= SaveEvery - 1

\* one page past a periodic save that was written
C18_Witness ==
    /\ pc = "loop"
    /\ last_save = "ok"
    /\ Cardinality(visited_urls) = SaveEvery + 1
    /\ Cardinality(load_progress(progress_file, start_url)) = SaveEvery

====
